---- MODULE Spec2Model ----
(***************************************************************************)
(* Session continuity layer of the Redis + serverless variant of the MCP   *)
(* HTTP endpoint: the POST /mcp handler (src/unnamed/part_001) together    *)
(* with the SessionManager it calls (src/unnamed/part_004), and the        *)
(* SessionManager on its own, called operation by operation, in its three  *)
(* versions: Redis with fallback (part_004), Redis only (part_002) and the *)
(* in-memory map (part_003); and the POST handler together with the GET    *)
(* and DELETE handler of the same file (handleSessionRequest).             *)
(*                                                                         *)
(* One process instance is modelled.  A request is a small process: it     *)
(* runs JavaScript synchronously up to the next Redis round trip, and its  *)
(* pc names the round trip it is suspended on.  One step of a request is   *)
(* "the pending round trip takes effect in Redis and the continuation runs *)
(* up to the next round trip".  The requests in flight form a bag: two     *)
(* requests with the same inputs at the same position are two requests.    *)
(*                                                                         *)
(* Time is Date.now() in milliseconds; the clock advances in steps of      *)
(* TickMs; `now` is what a read of Date.now() returns at the end of a       *)
(* synchronous block, and a read taken earlier in the same block may have  *)
(* returned a millisecond less.  Redis keys carry their own expiration     *)
(* instant.                                                                *)
(*                                                                         *)
(* The protocol layer (StreamableHTTPServerTransport of the MCP SDK) is    *)
(* outside the repository.  What the model takes from it is its contract   *)
(* towards the callbacks the repository passes in: the session id          *)
(* generator and onsessioninitialized run when, and only when, the handle  *)
(* processes an initialize message; any other message on a handle that was *)
(* never initialized is answered "Server not initialized" (the error named *)
(* in src/REDIS_SOLUTION.md).  Requests are well-formed HTTP.              *)
(***************************************************************************)
EXTENDS Integers, Sequences, FiniteSets, Bags, TLC

\* ---------------------------------------------------------------- bounds
MaxIds     == 2   \* distinct session ids (client-supplied or generated)
MaxReq     == 2   \* requests in flight at once on the instance
MaxHandles == 2   \* transports constructed during one process lifetime
MaxTicks   == 2   \* clock ticks after start
MaxStoreIds == 1  \* session ids callers name: SessionManager calls on its own, headers of EndpointSpec
MaxSkew    == 1   \* milliseconds the clock may advance between two adjacent reads

\* ------------------------------------------------------------- constants
TickMs          == 20 * 60 * 1000
SESSION_TIMEOUT == 30 * 60 * 1000
SETEX_SECONDS   == SESSION_TIMEOUT \div 1000

Ids  == 1..MaxIds
NoId == 0          \* header absent / sessionId undefined
NoHandle == 0      \* transports[id] undefined
Inherited == MaxIds + 1            \* a header value that names an inherited property ("constructor")
Keys == Ids \cup {Inherited}       \* what a request can name in the objects of src/index.ts
InheritedValue == MaxHandles + 1   \* Object.prototype.constructor: truthy, no handle
NoTimestamp == 0 - 1               \* sessionTimestamps[key] undefined
NoRecord == [sessionId |-> NoId, createdAt |-> 0, lastAccessed |-> 0]
NoValue  == <<>>   \* redis.get answers null
NoKey    == [value |-> NoValue, expiresAt |-> 0]

VARIABLES
    now,                      \* Date.now()
    isServerlessEnvironment,  \* process.env.VERCEL === "1"
    redis,                    \* SessionManager.redis is non-null (credentials configured)
    store,                    \* Redis: session id -> key (JSON value, expiration instant)
    transports,               \* the process-local map session id -> handle
    handles,                  \* the transports constructed so far in this process
    timers,                   \* pending setTimeout callbacks: [h, due]
    reqs,                     \* the requests in flight on this instance (a bag)
    last,                     \* the request the step just taken completed, if any
    sessionManager,           \* which version of sessionManager.js is built
    inMemorySessions,         \* part_003: the Map session id -> SessionData
    sessionTimestamps         \* src/index.ts: the object key -> time of the last request

vars == <<now, isServerlessEnvironment, redis, store, transports,
          handles, timers, reqs, last, sessionManager, inMemorySessions,
          sessionTimestamps>>

\* The versions of the SessionManager.
RedisWithFallback == "part_004"
RedisOnly == "part_002"
InMemory == "part_003"

\* What the client is answered.  The handler's own answers carry the HTTP
\* status, the JSON-RPC error code and the id member they are sent with; the
\* status and code of an answer of the protocol layer are its own business.
NoResponse == [by |-> "none", what |-> "none", status |-> 0, code |-> 0, id |-> "none"]
ByProtocol(what) ==
    [by |-> "protocol", what |-> what, status |-> 0, code |-> 0, id |-> "none"]
ByHandler(what, status, code) ==
    [by |-> "handler", what |-> what, status |-> status, code |-> code, id |-> "null"]

\* How a call of a SessionManager operation ends for its caller.
Returned == [by |-> "sessionManager", what |-> "returned", status |-> 0, code |-> 0, id |-> "none"]
Thrown   == [by |-> "sessionManager", what |-> "thrown", status |-> 0, code |-> 0, id |-> "none"]

\* A request, or a call of one SessionManager operation (op; sid is then the
\* argument of the call): its inputs (sid, init), its position (pc), its local variables
\* (transport, session) and what it observed on its way (hit: the handle found
\* in the map; looked, exists, lookupErr, recLive: the sessionExists call, its
\* result, whether Redis threw, whether the key was there; built: the id the generator of
\* the handle it constructed returns; minted: the randomUUID() it drew;
\* touched: a setex of updateSession took effect; threw: a store call of the
\* operation threw; ret: the session getSession resolved to; onclose: the
\* close callback the handler gave the handle it constructed; swept: the ids
\* cleanupExpiredSessions called deleteSession with).
IdleReq ==
    [op |-> "post", pc |-> "idle", sid |-> NoId, init |-> FALSE, hit |-> NoHandle,
     looked |-> FALSE, exists |-> FALSE, lookupErr |-> FALSE, recLive |-> FALSE,
     transport |-> NoHandle, built |-> NoId, minted |-> NoId, outcome |-> "NONE",
     handled |-> FALSE, resp |-> NoResponse, session |-> NoRecord, touched |-> FALSE,
     threw |-> FALSE, ret |-> NoRecord, onclose |-> "none", swept |-> {}]

Init ==
    /\ now = TickMs
    /\ isServerlessEnvironment \in BOOLEAN
    /\ redis \in BOOLEAN
    /\ store = [i \in Ids |-> NoKey]
    /\ transports = [i \in Ids |-> NoHandle]
    /\ handles = <<>>
    /\ timers = {}
    /\ reqs = EmptyBag
    /\ last = IdleReq
    /\ sessionManager = RedisWithFallback
    /\ inMemorySessions = [i \in Ids |-> NoRecord]
    /\ sessionTimestamps = [k \in Keys |-> NoTimestamp]

\* ------------------------------------------------------- SessionManager
\* JSON.stringify(sessionData): the text stored under the key, as the list of
\* its members (transportData is undefined and is left out by stringify).
JsonStringify(session) ==
    <<session.sessionId, session.createdAt, session.lastAccessed>>

\* parseSessionData: an object with a truthy sessionId and numeric timestamps
\* is the session; anything else is null (NoRecord).
ParseSessionData(data) ==
    IF data # NoValue /\ Len(data) = 3 /\ data[1] # NoId
        /\ data[2] \in Int /\ data[3] \in Int
    THEN [sessionId |-> data[1], createdAt |-> data[2], lastAccessed |-> data[3]]
    ELSE NoRecord

\* A write that keeps the expiration a key already has (SET ... KEEPTTL).
SetKeepTtl(st, id, seconds, value) ==
    [st EXCEPT ![id] = [value |-> value,
                        expiresAt |-> IF st[id].expiresAt = 0 THEN now + seconds * 1000
                                      ELSE st[id].expiresAt]]

\* redis.setex(key, seconds, value) executed by Redis at instant `now`.
Setex(st, id, seconds, value) ==
    [st EXCEPT ![id] = [value |-> value, expiresAt |-> now + seconds * 1000]]

\* A delete by pattern, which removes the key of every session.
DelEverySession(st, id) == [i \in DOMAIN st |-> NoKey]

\* redis.del(key)
Del(st, id) == [st EXCEPT ![id] = NoKey]

\* redis.exists(key) === 1
RedisExists(id) == store[id] # NoKey


\* What sessionExists resolves to without a Redis client (`this.redis` is
\* null): false for every id, without a round trip.
SessionExistsWithoutRedis(id) == FALSE

\* A sessionExists whose catch block answers "it exists": the alternative
\* the handler's treatment of a lookup error is measured against.
SessionExistsAssumed(id, err) ==
    IF err THEN TRUE ELSE store[id] # NoKey

\* What sessionExists resolves to once redis.exists has answered, or has
\* thrown (err): the catch block turns a thrown error into false.
SessionExistsResult(id, err) ==
    IF err THEN FALSE ELSE RedisExists(id)

\* By how much the clock may advance between two adjacent reads.
Skews == 0..MaxSkew

\* A sessionData object whose two clock reads are taken in the other order:
\* lastAccessed first, createdAt second.
NewSessionDataSwapped(id, skew) ==
    [sessionId |-> id, createdAt |-> now, lastAccessed |-> now - skew]

\* The sessionData object createSession builds: two reads of Date.now(), the
\* first `skew` milliseconds before the second, which reads the current time.
NewSessionData(id, skew) ==
    [sessionId |-> id, createdAt |-> now - skew, lastAccessed |-> now]

\* ------------------------------------------------------ protocol layer
\* A handle: what its sessionIdGenerator returns, its sessionId (undefined
\* until it is initialized), which onclose the branch gave it ("defer": the
\* setTimeout of the initialize branch; "delete": the immediate delete of the
\* recreate and serverless branches), and whether it has closed.
NewTransport(gen, onclose) ==
    [generator |-> gen, sessionId |-> NoId, initialized |-> FALSE,
     onclose |-> onclose, closed |-> FALSE]

\* A protocol layer that marks the handle initialized and keeps no session id.
InitializedAnonymous(t) ==
    [t EXCEPT !.initialized = TRUE]

\* The handle after it has processed an initialize message.
Initialized(t) ==
    [t EXCEPT !.sessionId = t.generator, !.initialized = TRUE]

\* transport.handleRequest on a POST: the answer of the protocol layer, before
\* any callback runs.
ProtocolAnswer(t, isInit, sid) ==
    IF isInit
    THEN IF t.initialized /\ t.sessionId # NoId
         THEN "sdk_already_initialized" ELSE "handled_ok"
    ELSE IF ~t.initialized THEN "sdk_not_initialized"
         ELSE IF sid = NoId THEN "sdk_session_required"
         ELSE IF sid # t.sessionId THEN "sdk_session_not_found"
         ELSE "handled_ok"

\* ----------------------------------------------------------- helpers
InFlight == BagToSet(reqs)
One(q) == SetToBag({q})
Lookups == BagOfAll(LAMBDA q : q.pc, reqs)
RoomForRequest == BagCardinality(reqs) < MaxReq
RoomForHandle ==
    Len(handles) + (IF BagIn("sessionExists", Lookups)
                    THEN CopiesIn("sessionExists", Lookups) ELSE 0) < MaxHandles
Done(q, resp) == [q EXCEPT !.pc = "done", !.resp = resp, !.session = NoRecord]

\* Request r (IdleReq: a new one) moves to q; a request that is done is
\* remembered, for the state it completes in, as the one just completed.
Commit(r, q) ==
    LET others == IF r = IdleReq THEN reqs ELSE reqs (-) One(r) IN
    IF q.pc = "done"
    THEN /\ reqs' = others
         /\ last' = q
    ELSE /\ reqs' = others (+) One(q)
         /\ last' = IdleReq

\* ------------------------------------------- alternative reconcilers
\* Variants of the definitions below, each differing from the handler in one
\* decision.  The properties at the end of the module hold of the handler
\* and fail of the variant named with them.

\* Reuse only when the store still has the record.
CachedAndStored(sid) ==
    sid # NoId /\ transports[sid] # NoHandle /\ store[sid] # NoKey


\* The tolerant branch without its `sessionId &&` test.
BranchRebindNoId(sid, isInit, cached, ex) ==
    IF sid # NoId /\ cached THEN "REUSED"
    ELSE IF sid # NoId /\ ex THEN "RECREATED"
    ELSE IF sid = NoId /\ isInit THEN "CREATED"
    ELSE IF isServerlessEnvironment THEN "REBOUND"
    ELSE "REJECTED"

\* The tolerant branch tested before the store's answer is used.
BranchRebindFirst(sid, isInit, cached, ex) ==
    IF sid # NoId /\ cached THEN "REUSED"
    ELSE IF sid # NoId /\ isServerlessEnvironment THEN "REBOUND"
    ELSE IF sid # NoId /\ ex THEN "RECREATED"
    ELSE IF sid = NoId /\ isInit THEN "CREATED"
    ELSE "REJECTED"

\* The recreate branch taken only while no other request is in flight.
BranchUnlessBusy(sid, isInit, cached, ex) ==
    IF sid # NoId /\ cached THEN "REUSED"
    ELSE IF sid # NoId /\ ex /\ BagCardinality(reqs) <= 1 THEN "RECREATED"
    ELSE IF sid = NoId /\ isInit THEN "CREATED"
    ELSE IF sid # NoId /\ isServerlessEnvironment THEN "REBOUND"
    ELSE "REJECTED"

\* ------------------------------------------------- POST /mcp handler
\* The if / else-if chain of the handler.  `cached` is transports[sid] being
\* set, `ex` what the awaited sessionExists(sid) resolved to (it is awaited
\* only when sid is present and not cached).
Branch(sid, isInit, cached, ex) ==
    IF sid # NoId /\ cached THEN "REUSED"
    ELSE IF sid # NoId /\ ex THEN "RECREATED"
    ELSE IF sid = NoId /\ isInit THEN "CREATED"
    ELSE IF sid # NoId /\ isServerlessEnvironment THEN "REBOUND"
    ELSE "REJECTED"

\* The first condition of the chain: sessionId && transports[sessionId].
Cached(sid) == sid # NoId /\ transports[sid] # NoHandle

\* randomUUID(): an id that nothing in the system holds (no Redis key, no map
\* entry, no handle, no request in flight).
FreshIds ==
    {i \in Ids : /\ store[i] = NoKey
                 /\ transports[i] = NoHandle
                 /\ \A h \in 1..Len(handles) : handles[h].generator # i
                 /\ \A q \in InFlight : q.sid # i /\ q.built # i}

\* A recreate branch that draws a randomUUID() like the initialize branch.
GeneratorFresh(branch, sid) ==
    IF branch \in {"CREATED", "RECREATED"} THEN FreshIds ELSE {sid}

\* The ids the sessionIdGenerator of a new handle can return, per branch:
\* () => sessionId in the recreate and serverless branches, () => newSessionId
\* (a randomUUID()) in the initialize branch.
GeneratorIds(branch, sid) ==
    IF branch = "CREATED" THEN FreshIds ELSE {sid}

\* currentTransport.onclose as the branch sets it.
OnClose(branch) ==
    IF branch = "CREATED" THEN "defer" ELSE "delete"

\* An onsessioninitialized that registers the handle and writes no record.
OnSessionInitializedNoCreate(q, branch, id, skew) ==
    IF branch = "RECREATED" /\ redis
    THEN [q EXCEPT !.pc = "getSession.get"]
    ELSE Done(q, ByProtocol("handled_ok"))

\* The body of onsessioninitialized after `transports[id] = transport`, up to
\* its first Redis round trip: updateSession in the recreate branch,
\* createSession in the initialize and serverless branches.  Without a Redis
\* client both only log.
OnSessionInitialized(q, branch, id, skew) ==
    IF branch = "RECREATED"
    THEN IF redis THEN [q EXCEPT !.pc = "getSession.get"]
                  ELSE Done(q, ByProtocol("handled_ok"))
    ELSE IF redis THEN [q EXCEPT !.pc = "createSession.setex",
                                 !.session = NewSessionData(id, skew)]
                  ELSE Done(q, ByProtocol("handled_ok"))

\* `await transport.handleRequest(req, res, req.body)` on handle t, which is
\* handles[h] or a handle just constructed (h = Len(handles) + 1).  A handle
\* just constructed that is not initialized by the request is referenced by
\* nothing once the request is answered, and is not kept.
HandlePost(r, q, h, t, branch) ==
    LET ans == ProtocolAnswer(t, q.init, q.sid)
        q1  == [q EXCEPT !.transport = h, !.outcome = branch, !.handled = TRUE]
    IN  IF q.init /\ ans = "handled_ok"
        THEN /\ handles' = IF h <= Len(handles)
                           THEN [handles EXCEPT ![h] = Initialized(t)]
                           ELSE Append(handles, Initialized(t))
             /\ transports' = [transports EXCEPT ![t.generator] = h]
             /\ \E skew \in Skews :
                    Commit(r, OnSessionInitialized(q1, branch, t.generator, skew))
        ELSE /\ UNCHANGED <<handles, transports>>
             /\ Commit(r, Done(q1, ByProtocol(ans)))

\* The response of the final else branch.
RejectResponse == ByHandler("bad_request", 400, -32000)

\* The response of the handler's catch block.
InternalError == ByHandler("internal_error", 500, -32603)

\* A handler whose final else also runs `delete transports[sessionId]`.
ServeRejectEvicts(r, q, branch) ==
    CASE branch = "REUSED" ->
            /\ HandlePost(r, q, transports[q.sid], handles[transports[q.sid]], branch)
      [] branch = "REJECTED" ->
            /\ Commit(r, Done([q EXCEPT !.outcome = branch], RejectResponse))
            /\ transports' = [i \in Ids |-> IF i = q.sid THEN NoHandle ELSE transports[i]]
            /\ UNCHANGED handles
      [] OTHER ->
            \E id \in GeneratorIds(branch, q.sid) :
                HandlePost(r, [q EXCEPT !.built = id, !.onclose = OnClose(branch),
                                           !.minted = IF branch = "CREATED" THEN id ELSE NoId],
                              Len(handles) + 1,
                              NewTransport(id, OnClose(branch)),
                              branch)

\* The body of the branch the chain selected, and what follows it.
Serve(r, q, branch) ==
    CASE branch = "REUSED" ->
            /\ HandlePost(r, q, transports[q.sid], handles[transports[q.sid]], branch)
      [] branch = "REJECTED" ->
            /\ Commit(r, Done([q EXCEPT !.outcome = branch], RejectResponse))
            /\ UNCHANGED <<handles, transports>>
      [] OTHER ->
            \E id \in GeneratorIds(branch, q.sid) :
                HandlePost(r, [q EXCEPT !.built = id, !.onclose = OnClose(branch),
                                           !.minted = IF branch = "CREATED" THEN id ELSE NoId],
                              Len(handles) + 1,
                              NewTransport(id, OnClose(branch)),
                              branch)

\* The handler from its start to its first suspension.
PostStart(sid, isInit) ==
    /\ RoomForRequest
    /\ Cached(sid) \/ (sid = NoId /\ ~isInit) \/ RoomForHandle
    /\ sid = NoId /\ isInit => FreshIds # {}
    /\ LET q == [IdleReq EXCEPT !.sid = sid, !.init = isInit,
                                !.hit = IF sid # NoId THEN transports[sid] ELSE NoHandle]
       IN  IF sid # NoId /\ ~Cached(sid) /\ redis
           THEN \* await sessionManager.sessionExists(sessionId): redis.exists
                /\ Commit(IdleReq, [q EXCEPT !.pc = "sessionExists"])
                /\ UNCHANGED <<handles, transports>>
           ELSE \* no Redis client: sessionExists resolves false without a round trip
                Serve(IdleReq, [q EXCEPT !.looked = (sid # NoId /\ ~Cached(sid))],
                      Branch(sid, isInit, Cached(sid), SessionExistsWithoutRedis(sid)))
    /\ UNCHANGED <<sessionTimestamps, sessionManager, inMemorySessions, now, isServerlessEnvironment, redis, store, timers>>

\* redis.exists answers, or throws (err), and the handler resumes.
SessionExistsReturn(r, err) ==
    /\ r \in InFlight
    /\ r.pc = "sessionExists"
    /\ LET q  == r
           ex == SessionExistsResult(q.sid, err)
           q1 == [q EXCEPT !.looked = TRUE, !.exists = ex,
                           !.lookupErr = err, !.recLive = RedisExists(q.sid)]
       IN  Serve(r, q1, Branch(q.sid, q.init, FALSE, ex))
    /\ UNCHANGED <<sessionTimestamps, sessionManager, inMemorySessions, now, isServerlessEnvironment, redis, store, timers>>

\* The sessionId argument of the SessionManager operation q is in: for a POST
\* request the id onsessioninitialized was called with (initializedSessionId,
\* what the generator of the handle returned).
SessionIdOf(q) == IF q.op = "post" THEN q.built ELSE q.sid

\* What the client gets when onsessioninitialized rejects: the protocol layer
\* answers the failed request with an error, or the rejection reaches the
\* handler's catch block (500, code -32603).
CallbackFailures == {ByProtocol("callback_error"), InternalError}

\* How the operation q is in ends when its promise resolves / rejects: a POST
\* request is answered; a call made on its own returns or throws.
Resolved(q) == IF q.op = "post" THEN ByProtocol("handled_ok") ELSE Returned
Rejections(q) == IF q.op = "post" THEN CallbackFailures ELSE {Thrown}

\* createSession: redis.setex takes effect, or throws (err) and createSession
\* rethrows, which rejects onsessioninitialized.
CreateSessionSetex(r, err) ==
    /\ r \in InFlight
    /\ r.pc = "createSession.setex"
    /\ LET q == r IN
       IF ~err
       THEN /\ store' = Setex(store, SessionIdOf(q), SETEX_SECONDS, JsonStringify(q.session))
            /\ Commit(r, Done(q, Resolved(q)))
       ELSE /\ UNCHANGED store
            /\ \E f \in Rejections(q) : Commit(r, Done([q EXCEPT !.threw = TRUE], f))
    /\ UNCHANGED <<sessionTimestamps, sessionManager, inMemorySessions, now, isServerlessEnvironment, redis, transports,
                   handles, timers>>

\* updateSession -> getSession: redis.get answers.  A thrown error, a missing
\* key and an unparsable value all make getSession return null, and then
\* updateSession writes nothing.
GetSessionGet(r, err) ==
    /\ r \in InFlight
    /\ r.pc = "getSession.get"
    /\ LET q       == r
           data    == IF err THEN NoValue ELSE store[SessionIdOf(q)].value
           session == ParseSessionData(data)
       IN  IF session = NoRecord
           THEN Commit(r, Done([q EXCEPT !.threw = err], Resolved(q)))
           ELSE Commit(r, [q EXCEPT !.pc = "getSession.setex",
                                    !.session = [session EXCEPT !.lastAccessed = now]])
    /\ UNCHANGED <<sessionTimestamps, sessionManager, inMemorySessions, now, isServerlessEnvironment, redis, store, transports,
                   handles, timers>>

\* getSession's refresh: redis.setex takes effect and getSession returns the
\* session, on which updateSession (when it is the caller) sets lastAccessed =
\* Date.now() again; or setex throws (err), getSession returns null and
\* updateSession writes nothing.
GetSessionSetex(r, err) ==
    /\ r \in InFlight
    /\ r.pc = "getSession.setex"
    /\ LET q == r IN
       IF ~err
       THEN /\ store' = Setex(store, SessionIdOf(q), SETEX_SECONDS, JsonStringify(q.session))
            /\ IF q.op = "getSession"
               THEN Commit(r, Done([q EXCEPT !.touched = TRUE, !.ret = q.session], Resolved(q)))
               ELSE Commit(r, [q EXCEPT !.pc = "updateSession.setex", !.touched = TRUE,
                                        !.session = [q.session EXCEPT !.lastAccessed = now]])
       ELSE /\ UNCHANGED store
            /\ Commit(r, Done([q EXCEPT !.threw = TRUE], Resolved(q)))
    /\ UNCHANGED <<sessionTimestamps, sessionManager, inMemorySessions, now, isServerlessEnvironment, redis, transports,
                   handles, timers>>

\* updateSession's own redis.setex; an error (err) is caught and logged.
UpdateSessionSetex(r, err) ==
    /\ r \in InFlight
    /\ r.pc = "updateSession.setex"
    /\ LET q == r IN
       /\ store' = IF err THEN store
                   ELSE Setex(store, SessionIdOf(q), SETEX_SECONDS, JsonStringify(q.session))
       /\ Commit(r, Done([q EXCEPT !.touched = q.touched \/ ~err, !.threw = err], Resolved(q)))
    /\ UNCHANGED <<sessionTimestamps, sessionManager, inMemorySessions, now, isServerlessEnvironment, redis, transports,
                   handles, timers>>

\* ------------------------------------------------------ close callbacks
\* An onclose that deletes the record and the map entry at once, in every
\* branch.
CloseTransportDeleteNow(h) ==
    /\ h \in 1..Len(handles)
    /\ ~handles[h].closed
    /\ handles[h].sessionId # NoId
    /\ handles' = [handles EXCEPT ![h].closed = TRUE]
    /\ store' = IF redis THEN Del(store, handles[h].sessionId) ELSE store
    /\ transports' = [transports EXCEPT ![handles[h].sessionId] = NoHandle]
    /\ last' = IdleReq
    /\ UNCHANGED <<sessionTimestamps, sessionManager, inMemorySessions, now, isServerlessEnvironment, redis,
                   timers, reqs>>

\* transport.onclose.  The initialize branch schedules the deletion of the
\* record and of the map entry SESSION_TIMEOUT later; the recreate and
\* serverless branches delete the map entry at once.
CloseTransport(h) ==
    /\ h \in 1..Len(handles)
    /\ ~handles[h].closed
    /\ handles[h].sessionId # NoId
    /\ handles' = [handles EXCEPT ![h].closed = TRUE]
    /\ IF handles[h].onclose = "defer"
       THEN /\ timers' = timers \cup {[h |-> h, due |-> now + SESSION_TIMEOUT]}
            /\ UNCHANGED transports
       ELSE /\ transports' = [transports EXCEPT ![handles[h].sessionId] = NoHandle]
            /\ UNCHANGED timers
    /\ last' = IdleReq
    /\ UNCHANGED <<sessionTimestamps, sessionManager, inMemorySessions, now, isServerlessEnvironment, redis, store, reqs>>

\* The setTimeout callback of the initialize branch: deleteSession (an error,
\* err, is caught; without a Redis client it only logs), then delete the map
\* entry.
TimerFire(t, err) ==
    /\ t \in timers
    /\ now >= t.due
    /\ LET id == handles[t.h].sessionId IN
       /\ store' = IF redis /\ ~err THEN Del(store, id) ELSE store
       /\ transports' = [transports EXCEPT ![id] = NoHandle]
    /\ timers' = timers \ {t}
    /\ last' = IdleReq
    /\ UNCHANGED <<sessionTimestamps, sessionManager, inMemorySessions, now, isServerlessEnvironment, redis, handles, reqs>>

\* ---------------------------------------------------------- environment
\* Time passes; Redis drops the keys whose expiration instant is reached.
Tick ==
    /\ now < TickMs * (1 + MaxTicks)
    /\ now' = now + TickMs
    /\ store' = [i \in Ids |-> IF store[i] # NoKey /\ store[i].expiresAt <= now'
                               THEN NoKey ELSE store[i]]
    /\ last' = IdleReq
    /\ UNCHANGED <<sessionTimestamps, sessionManager, inMemorySessions, isServerlessEnvironment, redis, transports, handles,
                   timers, reqs>>

\* The instance is discarded and a fresh one loads the module: the transports
\* map, the handles and the timers are gone, the Redis keys stay.
ColdStart ==
    /\ reqs = EmptyBag
    /\ handles # <<>>
    /\ transports' = [i \in Ids |-> NoHandle]
    /\ handles' = <<>>
    /\ timers' = {}
    /\ last' = IdleReq
    /\ UNCHANGED <<sessionTimestamps, sessionManager, inMemorySessions, now, isServerlessEnvironment, redis, store, reqs>>

Next ==
    \/ \E sid \in Ids \cup {NoId}, isInit \in BOOLEAN : PostStart(sid, isInit)
    \/ \E r \in InFlight, err \in BOOLEAN : SessionExistsReturn(r, err)
    \/ \E r \in InFlight, err \in BOOLEAN : CreateSessionSetex(r, err)
    \/ \E r \in InFlight, err \in BOOLEAN : GetSessionGet(r, err)
    \/ \E r \in InFlight, err \in BOOLEAN : GetSessionSetex(r, err)
    \/ \E r \in InFlight, err \in BOOLEAN : UpdateSessionSetex(r, err)
    \/ \E h \in 1..MaxHandles : CloseTransport(h)
    \/ \E t \in timers, err \in BOOLEAN : TimerFire(t, err)
    \/ Tick
    \/ ColdStart

Spec == Init /\ [][Next]_vars


\* ------------------------------------- the SessionManager on its own
\* The operations a caller can invoke.  sessionExists is a method of part_004
\* only.
Ops == {"createSession", "getSession", "updateSession", "deleteSession", "sessionExists"}
HasOp(op) == op # "sessionExists" \/ sessionManager = RedisWithFallback

\* An operation of the Redis versions from its call to its first redis
\* round trip.  Without a Redis client (part_004 only) every operation logs
\* and returns: getSession null, sessionExists false.
RedisCall(q, skew) ==
    /\ IF ~redis
       THEN Commit(IdleReq, Done([q EXCEPT !.looked = (q.op = "sessionExists")], Returned))
       ELSE CASE q.op = "createSession" ->
                    Commit(IdleReq, [q EXCEPT !.pc = "createSession.setex",
                                              !.session = NewSessionData(q.sid, skew)])
              [] q.op \in {"getSession", "updateSession"} ->
                    Commit(IdleReq, [q EXCEPT !.pc = "getSession.get"])
              [] q.op = "deleteSession" ->
                    Commit(IdleReq, [q EXCEPT !.pc = "deleteSession.del"])
              [] q.op = "sessionExists" ->
                    Commit(IdleReq, [q EXCEPT !.pc = "sessionExists.exists"])
    /\ UNCHANGED inMemorySessions

\* An operation of part_003 from its call to its first await: the Map is read
\* and written synchronously; only updateSession awaits (the getSession it
\* calls), and runs on afterwards when getSession found the session.
MemoryCall(q, skew) ==
    LET id      == q.sid
        session == inMemorySessions[id]
        touch   == [session EXCEPT !.lastAccessed = now]
    IN  CASE q.op = "createSession" ->
                /\ inMemorySessions' = [inMemorySessions EXCEPT ![id] = NewSessionData(id, skew)]
                /\ Commit(IdleReq, Done(q, Returned))
          [] q.op = "getSession" ->
                IF session = NoRecord
                THEN /\ UNCHANGED inMemorySessions
                     /\ Commit(IdleReq, Done(q, Returned))
                ELSE /\ inMemorySessions' = [inMemorySessions EXCEPT ![id] = touch]
                     /\ Commit(IdleReq, Done([q EXCEPT !.touched = TRUE, !.ret = touch], Returned))
          [] q.op = "updateSession" ->
                IF session = NoRecord
                THEN /\ UNCHANGED inMemorySessions
                     /\ Commit(IdleReq, Done(q, Returned))
                ELSE /\ inMemorySessions' = [inMemorySessions EXCEPT ![id] = touch]
                     /\ Commit(IdleReq, [q EXCEPT !.pc = "updateSession.set", !.touched = TRUE,
                                                  !.session = touch])
          [] q.op = "deleteSession" ->
                /\ inMemorySessions' = [inMemorySessions EXCEPT ![id] = NoRecord]
                /\ Commit(IdleReq, Done(q, Returned))

\* A caller invokes operation op on session id.
Call(op, id) ==
    /\ RoomForRequest
    /\ HasOp(op)
    /\ LET q == [IdleReq EXCEPT !.op = op, !.sid = id] IN
       \E skew \in Skews :
           IF sessionManager = InMemory THEN MemoryCall(q, skew) ELSE RedisCall(q, skew)
    /\ UNCHANGED <<sessionTimestamps, sessionManager, now, isServerlessEnvironment, redis, store,
                   transports, handles, timers>>

\* part_003 updateSession after its await: the session object it holds gets
\* lastAccessed = Date.now() and is set in the Map under the id, whatever the
\* Map holds there by now.
UpdateSessionSet(r) ==
    /\ r \in InFlight
    /\ r.pc = "updateSession.set"
    /\ inMemorySessions' = [inMemorySessions EXCEPT
                               ![r.sid] = [r.session EXCEPT !.lastAccessed = now]]
    /\ Commit(r, Done(r, Returned))
    /\ UNCHANGED <<sessionTimestamps, sessionManager, now, isServerlessEnvironment, redis, store,
                   transports, handles, timers>>

\* A deleteSession without its try/catch: an error of redis.del reaches the
\* caller.
DeleteSessionUncaught(r, err) ==
    /\ r \in InFlight
    /\ r.pc = "deleteSession.del"
    /\ store' = IF err THEN store ELSE Del(store, SessionIdOf(r))
    /\ Commit(r, Done([r EXCEPT !.threw = err], IF err THEN Thrown ELSE Returned))
    /\ UNCHANGED <<sessionTimestamps, sessionManager, inMemorySessions, now, isServerlessEnvironment, redis,
                   transports, handles, timers>>

\* deleteSession: redis.del takes effect, or throws (err), which is caught and
\* logged.
DeleteSessionDel(r, err) ==
    /\ r \in InFlight
    /\ r.pc = "deleteSession.del"
    /\ store' = IF err THEN store ELSE Del(store, SessionIdOf(r))
    /\ Commit(r, Done([r EXCEPT !.threw = err], Returned))
    /\ UNCHANGED <<sessionTimestamps, sessionManager, inMemorySessions, now, isServerlessEnvironment, redis,
                   transports, handles, timers>>

\* sessionExists called on its own: redis.exists answers, or throws (err).
SessionExistsExists(r, err) ==
    /\ r \in InFlight
    /\ r.pc = "sessionExists.exists"
    /\ Commit(r, Done([r EXCEPT !.looked = TRUE, !.lookupErr = err, !.threw = err,
                                !.exists = SessionExistsResult(r.sid, err),
                                !.recLive = RedisExists(r.sid)], Returned))
    /\ UNCHANGED <<sessionTimestamps, sessionManager, inMemorySessions, now, isServerlessEnvironment, redis,
                   store, transports, handles, timers>>

StoreInit ==
    /\ now = TickMs
    /\ isServerlessEnvironment = FALSE
    /\ sessionManager \in {RedisWithFallback, RedisOnly, InMemory}
    /\ redis \in (IF sessionManager = RedisWithFallback THEN BOOLEAN
                  ELSE {sessionManager = RedisOnly})
    /\ store = [i \in Ids |-> NoKey]
    /\ inMemorySessions = [i \in Ids |-> NoRecord]
    /\ sessionTimestamps = [k \in Keys |-> NoTimestamp]
    /\ transports = [i \in Ids |-> NoHandle]
    /\ handles = <<>>
    /\ timers = {}
    /\ reqs = EmptyBag
    /\ last = IdleReq

StoreNext ==
    \/ \E op \in Ops, id \in 1..MaxStoreIds : Call(op, id)
    \/ \E r \in InFlight, err \in BOOLEAN : CreateSessionSetex(r, err)
    \/ \E r \in InFlight, err \in BOOLEAN : GetSessionGet(r, err)
    \/ \E r \in InFlight, err \in BOOLEAN : GetSessionSetex(r, err)
    \/ \E r \in InFlight, err \in BOOLEAN : UpdateSessionSetex(r, err)
    \/ \E r \in InFlight, err \in BOOLEAN : DeleteSessionDel(r, err)
    \/ \E r \in InFlight, err \in BOOLEAN : SessionExistsExists(r, err)
    \/ \E r \in InFlight : UpdateSessionSet(r)
    \/ Tick

StoreSpec == StoreInit /\ [][StoreNext]_vars

\* ------------------------------------------- the sweep of part_003
\* A test of the session's age since its creation.
IsStaleByAge(session) == now - session.createdAt > SESSION_TIMEOUT

\* The test of the sweep: now - session.lastAccessed > this.SESSION_TIMEOUT.
IsStale(session) == now - session.lastAccessed > SESSION_TIMEOUT

\* cleanupExpiredSessions of part_003: getAllSessions lists the values of the
\* Map, and deleteSession is called with the sessionId of every listed session
\* that is stale.  The Map is local to the process and every await of the
\* sweep is on a promise that is already settled, so the sweep runs to its end
\* before any other task of the process does.
CleanupExpiredSessions ==
    /\ sessionManager = InMemory
    /\ LET sessions == {inMemorySessions[i] : i \in Ids} \ {NoRecord}
           stale    == {session.sessionId : session \in {x \in sessions : IsStale(x)}}
       IN  /\ inMemorySessions' = [i \in Ids |-> IF i \in stale THEN NoRecord
                                                 ELSE inMemorySessions[i]]
           /\ last' = Done([IdleReq EXCEPT !.op = "cleanupExpiredSessions", !.swept = stale],
                           Returned)
    /\ UNCHANGED <<sessionTimestamps, sessionManager, now, isServerlessEnvironment, redis, store,
                   transports, handles, timers, reqs>>

SweepInit ==
    /\ StoreInit
    /\ sessionManager = InMemory

\* The in-memory SessionManager with its periodic sweep, called with every id.
SweepNext ==
    \/ \E op \in Ops, id \in Ids : Call(op, id)
    \/ \E r \in InFlight : UpdateSessionSet(r)
    \/ CleanupExpiredSessions
    \/ Tick

SweepSpec == SweepInit /\ [][SweepNext]_vars

\* ------------------------------------------- GET and DELETE /mcp
\* The response of handleSessionRequest to a missing or unknown session id:
\* res.status(400).send(text), a plain-text body without code or id.
PlainTextReject ==
    [by |-> "handler", what |-> "bad_request_text", status |-> 400, code |-> 0, id |-> "none"]

\* A handleSessionRequest that serves every id it is given.
SessionRequestBranchLenient(sid, cached, ex) ==
    IF sid = NoId THEN "REJECTED"
    ELSE IF cached THEN "REUSED"
    ELSE "RECREATED"

\* The tests of handleSessionRequest: no header, a handle in the map, the
\* answer of the awaited sessionExists.  There is no serverless branch.
SessionRequestBranch(sid, cached, ex) ==
    IF sid = NoId THEN "REJECTED"
    ELSE IF cached THEN "REUSED"
    ELSE IF ex THEN "RECREATED"
    ELSE "REJECTED"

\* The body of the branch handleSessionRequest selected.  REUSED: the handle
\* in the map handles the request; a DELETE makes the protocol layer close
\* the handle, which runs its onclose.  RECREATED: a handle is constructed
\* with the client's id as generator and no onclose, and handles the request;
\* it was never initialized, so the protocol layer refuses the request and the
\* handle is referenced by nothing afterwards.
ServeSessionRequest(r, q, branch) ==
    CASE branch = "REJECTED" ->
            /\ Commit(r, Done([q EXCEPT !.outcome = branch], PlainTextReject))
            /\ UNCHANGED <<handles, transports, timers>>
      [] branch = "RECREATED" ->
            LET t   == NewTransport(q.sid, "none")
                ans == ProtocolAnswer(t, FALSE, q.sid)
            IN  /\ Commit(r, Done([q EXCEPT !.outcome = branch, !.built = q.sid,
                                            !.onclose = t.onclose, !.handled = TRUE],
                                  ByProtocol(ans)))
                /\ UNCHANGED <<handles, transports, timers>>
      [] branch = "REUSED" ->
            LET h   == transports[q.sid]
                t   == handles[h]
                ans == ProtocolAnswer(t, FALSE, q.sid)
                q1  == [q EXCEPT !.outcome = branch, !.transport = h, !.handled = TRUE]
            IN  /\ Commit(r, Done(q1, ByProtocol(ans)))
                /\ IF q.op = "delete" /\ ans = "handled_ok"
                   THEN /\ handles' = [handles EXCEPT ![h].closed = TRUE]
                        /\ IF t.onclose = "defer"
                           THEN /\ timers' = timers \cup {[h |-> h, due |-> now + SESSION_TIMEOUT]}
                                /\ UNCHANGED transports
                           ELSE /\ transports' = [transports EXCEPT ![t.sessionId] = NoHandle]
                                /\ UNCHANGED timers
                   ELSE UNCHANGED <<handles, transports, timers>>

\* handleSessionRequest from its start to its first suspension.
SessionRequestStart(method, sid) ==
    /\ RoomForRequest
    /\ LET q == [IdleReq EXCEPT !.op = method, !.sid = sid,
                                !.hit = IF sid # NoId THEN transports[sid] ELSE NoHandle]
       IN  IF sid # NoId /\ ~Cached(sid) /\ redis
           THEN /\ Commit(IdleReq, [q EXCEPT !.pc = "handleSessionRequest.sessionExists"])
                /\ UNCHANGED <<handles, transports, timers>>
           ELSE ServeSessionRequest(IdleReq, [q EXCEPT !.looked = (sid # NoId /\ ~Cached(sid))],
                    SessionRequestBranch(sid, Cached(sid), SessionExistsWithoutRedis(sid)))
    /\ UNCHANGED <<sessionTimestamps, sessionManager, inMemorySessions, now, isServerlessEnvironment, redis, store>>

\* redis.exists answers, or throws (err), and handleSessionRequest resumes.
SessionRequestExists(r, err) ==
    /\ r \in InFlight
    /\ r.pc = "handleSessionRequest.sessionExists"
    /\ LET ex == SessionExistsResult(r.sid, err)
           q1 == [r EXCEPT !.looked = TRUE, !.exists = ex,
                           !.lookupErr = err, !.recLive = RedisExists(r.sid)]
       IN  ServeSessionRequest(r, q1, SessionRequestBranch(r.sid, FALSE, ex))
    /\ UNCHANGED <<sessionTimestamps, sessionManager, inMemorySessions, now, isServerlessEnvironment, redis, store>>

\* The values of the mcp-session-id header the clients of EndpointSpec send.
HeaderIds == (1..MaxStoreIds) \cup {NoId}

\* The three routes of the /mcp endpoint on one instance.  POST requests are
\* started one at a time here; GET and DELETE requests overlap with them and
\* with each other.
EndpointNext ==
    \/ \E sid \in HeaderIds, isInit \in BOOLEAN : reqs = EmptyBag /\ PostStart(sid, isInit)
    \/ \E method \in {"get", "delete"}, sid \in HeaderIds : SessionRequestStart(method, sid)
    \/ \E r \in InFlight, err \in BOOLEAN : SessionRequestExists(r, err)
    \/ \E r \in InFlight, err \in BOOLEAN : SessionExistsReturn(r, err)
    \/ \E r \in InFlight, err \in BOOLEAN : CreateSessionSetex(r, err)
    \/ \E r \in InFlight, err \in BOOLEAN : GetSessionGet(r, err)
    \/ \E r \in InFlight, err \in BOOLEAN : GetSessionSetex(r, err)
    \/ \E r \in InFlight, err \in BOOLEAN : UpdateSessionSetex(r, err)
    \/ \E h \in 1..MaxHandles : CloseTransport(h)
    \/ \E t \in timers, err \in BOOLEAN : TimerFire(t, err)
    \/ Tick
    \/ ColdStart

EndpointSpec == Init /\ [][EndpointNext]_vars

\* ------------------------- POST /mcp, headers that are no session ids
\* app.post("/mcp") of part_001 for a header that names a property every
\* object inherits ("constructor"): `transports` is created by `{}`, so
\* `transports[sessionId]` is the inherited value, which is truthy.  The
\* reuse branch takes it for the handle, `transport.handleRequest` is not a
\* function, and the TypeError reaches the catch block of the handler.
PostInherited(isInit) ==
    /\ reqs = EmptyBag
    /\ last' = Done([IdleReq EXCEPT !.op = "post", !.sid = Inherited, !.init = isInit,
                                    !.hit = InheritedValue, !.outcome = "REUSED"],
                    InternalError)
    /\ UNCHANGED <<sessionTimestamps, sessionManager, inMemorySessions, now,
                   isServerlessEnvironment, redis, store, transports, handles, timers, reqs>>

\* The POST route on one instance, its requests started one at a time, with
\* headers that are session ids and headers that are not.
HeaderNext ==
    \/ \E sid \in HeaderIds, isInit \in BOOLEAN : reqs = EmptyBag /\ PostStart(sid, isInit)
    \/ \E isInit \in BOOLEAN : PostInherited(isInit)
    \/ \E r \in InFlight, err \in BOOLEAN : SessionExistsReturn(r, err)
    \/ \E r \in InFlight, err \in BOOLEAN : CreateSessionSetex(r, err)
    \/ \E r \in InFlight, err \in BOOLEAN : GetSessionGet(r, err)
    \/ \E r \in InFlight, err \in BOOLEAN : GetSessionSetex(r, err)
    \/ \E r \in InFlight, err \in BOOLEAN : UpdateSessionSetex(r, err)
    \/ \E h \in 1..MaxHandles : CloseTransport(h)
    \/ \E t \in timers, err \in BOOLEAN : TimerFire(t, err)
    \/ Tick
    \/ ColdStart

HeaderSpec == Init /\ [][HeaderNext]_vars

\* ------------------------------------- two instances, one Redis store
\* Another instance of the same deployment serves a request for session id
\* from the record in the shared store: the onsessioninitialized of its
\* recreate branch calls updateSession(id).  Of that instance only its store
\* calls are modelled.
OtherInstanceRecreates(id) ==
    /\ redis
    /\ store[id] # NoKey
    /\ Call("updateSession", id)

\* This instance next to another instance that shares the store, the
\* requests of the two started one at a time.
SharedStoreNext ==
    \/ \E sid \in HeaderIds, isInit \in BOOLEAN : reqs = EmptyBag /\ PostStart(sid, isInit)
    \/ \E id \in Ids : reqs = EmptyBag /\ OtherInstanceRecreates(id)
    \/ \E r \in InFlight, err \in BOOLEAN : SessionExistsReturn(r, err)
    \/ \E r \in InFlight, err \in BOOLEAN : CreateSessionSetex(r, err)
    \/ \E r \in InFlight, err \in BOOLEAN : GetSessionGet(r, err)
    \/ \E r \in InFlight, err \in BOOLEAN : GetSessionSetex(r, err)
    \/ \E r \in InFlight, err \in BOOLEAN : UpdateSessionSetex(r, err)
    \/ \E h \in 1..MaxHandles : CloseTransport(h)
    \/ \E t \in timers, err \in BOOLEAN : TimerFire(t, err)
    \/ Tick
    \/ ColdStart

SharedStoreSpec == Init /\ [][SharedStoreNext]_vars

\* --------------------------- POST /mcp, first variant of api/index.ts
\* What the client gets when a promise of the handler rejects: the handler
\* has no try/catch, the rejection is nobody's.
UnhandledRejection ==
    [by |-> "runtime", what |-> "unhandled_rejection", status |-> 0, code |-> 0, id |-> "none"]

\* `const closedSessionId = transport.sessionId`, read from handle t right
\* after its construction: what the handle's sessionId is at that moment.
ClosedSessionId(t) == NewTransport(t.generator, t.onclose).sessionId

\* The handler after `await sessionManager.getSession(sessionId)` resolved to
\* `session` (NoRecord: null).  With a session and a handle in the map the
\* handle is picked; with a session alone a handle is constructed with the
\* client's id as generator.  The statement that follows tests `!transport &&
\* !sessionId && isInitializeRequest(req.body)`, which is false whenever the
\* header is present, and its else branch answers 400 and returns: the handle
\* picked or constructed is handed nothing.
ApiResume(r, q, session) ==
    LET picked == IF session # NoRecord THEN transports[q.sid] ELSE NoHandle
        made   == session # NoRecord /\ picked = NoHandle
    IN  /\ Commit(r, Done([q EXCEPT !.outcome = "REJECTED", !.ret = session,
                                    !.looked = TRUE, !.exists = (session # NoRecord),
                                    !.transport = picked,
                                    !.built = IF made THEN q.sid ELSE NoId],
                          RejectResponse))
        /\ UNCHANGED <<handles, transports>>

\* The handler from its start to its first suspension.  Without a header an
\* initialize request constructs a handle whose generator draws a
\* randomUUID(); the handle is initialized by the request, the callback
\* registers it and calls createSession.  Any other request without a header
\* is answered 400.
ApiPostStart(sid, isInit) ==
    /\ RoomForRequest
    /\ LET q == [IdleReq EXCEPT !.op = "api.post", !.sid = sid, !.init = isInit,
                                !.hit = IF sid # NoId THEN transports[sid] ELSE NoHandle]
       IN  IF sid # NoId
           THEN IF redis
                THEN /\ Commit(IdleReq, [q EXCEPT !.pc = "api.getSession.get"])
                     /\ UNCHANGED <<handles, transports>>
                ELSE ApiResume(IdleReq, q, NoRecord)
           ELSE IF isInit
                THEN /\ Len(handles) < MaxHandles
                     /\ \E id \in FreshIds, skew \in Skews :
                            LET t  == NewTransport(id, "defer")
                                q1 == [q EXCEPT !.built = id, !.minted = id, !.onclose = "defer",
                                                !.transport = Len(handles) + 1,
                                                !.outcome = "CREATED", !.handled = TRUE]
                            IN  /\ handles' = Append(handles, Initialized(t))
                                /\ transports' = [transports EXCEPT ![id] = Len(handles) + 1]
                                /\ IF redis
                                   THEN Commit(IdleReq, [q1 EXCEPT !.pc = "api.createSession.setex",
                                                                   !.session = NewSessionData(id, skew)])
                                   ELSE Commit(IdleReq, Done(q1, ByProtocol("handled_ok")))
                ELSE /\ Commit(IdleReq, Done([q EXCEPT !.outcome = "REJECTED"], RejectResponse))
                     /\ UNCHANGED <<handles, transports>>
    /\ UNCHANGED <<sessionTimestamps, sessionManager, inMemorySessions, now, isServerlessEnvironment, redis,
                   store, timers>>

\* getSession of the handler: redis.get answers, or throws (err).
ApiGetSessionGet(r, err) ==
    /\ r \in InFlight
    /\ r.pc = "api.getSession.get"
    /\ LET data    == IF err THEN NoValue ELSE store[r.sid].value
           session == ParseSessionData(data)
       IN  IF session = NoRecord
           THEN ApiResume(r, [r EXCEPT !.lookupErr = err], NoRecord)
           ELSE /\ Commit(r, [r EXCEPT !.pc = "api.getSession.setex",
                                       !.session = [session EXCEPT !.lastAccessed = now]])
                /\ UNCHANGED <<handles, transports>>
    /\ UNCHANGED <<sessionTimestamps, sessionManager, inMemorySessions, now, isServerlessEnvironment, redis,
                   store, timers>>

\* getSession's refresh: redis.setex takes effect and the session is
\* returned, or it throws (err) and getSession returns null.
ApiGetSessionSetex(r, err) ==
    /\ r \in InFlight
    /\ r.pc = "api.getSession.setex"
    /\ IF ~err
       THEN /\ store' = Setex(store, r.sid, SETEX_SECONDS, JsonStringify(r.session))
            /\ ApiResume(r, [r EXCEPT !.touched = TRUE], r.session)
       ELSE /\ UNCHANGED store
            /\ ApiResume(r, [r EXCEPT !.lookupErr = TRUE], NoRecord)
    /\ UNCHANGED <<sessionTimestamps, sessionManager, inMemorySessions, now, isServerlessEnvironment, redis,
                   timers>>

\* createSession of the initialize branch: redis.setex takes effect, or
\* throws (err) and createSession rethrows, which rejects the callback.
ApiCreateSessionSetex(r, err) ==
    /\ r \in InFlight
    /\ r.pc = "api.createSession.setex"
    /\ IF ~err
       THEN /\ store' = Setex(store, r.built, SETEX_SECONDS, JsonStringify(r.session))
            /\ Commit(r, Done(r, ByProtocol("handled_ok")))
       ELSE /\ UNCHANGED store
            /\ \E f \in {ByProtocol("callback_error"), UnhandledRejection} :
                   Commit(r, Done([r EXCEPT !.threw = TRUE], f))
    /\ UNCHANGED <<sessionTimestamps, sessionManager, inMemorySessions, now, isServerlessEnvironment, redis,
                   transports, handles, timers>>

\* transport.onclose of the initialize branch: `if (closedSessionId)` guards
\* the setTimeout whose callback would delete the record and the map entry
\* SESSION_TIMEOUT later.  No other code of the variant removes an entry of
\* the map.
ApiCloseTransport(h) ==
    /\ h \in 1..Len(handles)
    /\ ~handles[h].closed
    /\ handles' = [handles EXCEPT ![h].closed = TRUE]
    /\ timers' = IF ClosedSessionId(handles[h]) # NoId
                 THEN timers \cup {[h |-> h, due |-> now + SESSION_TIMEOUT]}
                 ELSE timers
    /\ last' = IdleReq
    /\ UNCHANGED <<sessionTimestamps, sessionManager, inMemorySessions, now, isServerlessEnvironment, redis,
                   store, transports, reqs>>

ApiNext ==
    \/ \E sid \in HeaderIds, isInit \in BOOLEAN : ApiPostStart(sid, isInit)
    \/ \E r \in InFlight, err \in BOOLEAN : ApiGetSessionGet(r, err)
    \/ \E r \in InFlight, err \in BOOLEAN : ApiGetSessionSetex(r, err)
    \/ \E r \in InFlight, err \in BOOLEAN : ApiCreateSessionSetex(r, err)
    \/ \E h \in 1..MaxHandles : ApiCloseTransport(h)
    \/ Tick
    \/ ColdStart

ApiSpec == Init /\ [][ApiNext]_vars

\* --------------------------------- the long-lived server of src/index.ts
\* `transports` and `sessionTimestamps` are two objects created by `{}`.
\* What `transports[key]` reads: the handle stored under the key, or, for a
\* property name every object inherits, the inherited value, which is truthy
\* and is no handle.
TransportsGet(key) ==
    IF key = NoId THEN NoHandle
    ELSE IF key \in Ids THEN transports[key]
    ELSE InheritedValue

\* Object.keys(transports) and Object.keys(sessionTimestamps): the own keys.
TransportKeys == {k \in Ids : transports[k] # NoHandle}
TimestampKeys == {k \in Keys : sessionTimestamps[k] # NoTimestamp}

\* `delete transports[key]; delete sessionTimestamps[key]`.
DeleteBoth(expired) ==
    /\ transports' = [k \in Ids |-> IF k \in expired THEN NoHandle ELSE transports[k]]
    /\ sessionTimestamps' = [k \in Keys |-> IF k \in expired THEN NoTimestamp
                                            ELSE sessionTimestamps[k]]

\* A test that takes every session touched before now for expired.
SessionAgeExceededAtOnce(key) ==
    now - (IF sessionTimestamps[key] = NoTimestamp THEN 0 ELSE sessionTimestamps[key]) > 0

\* The test of the sweep and of onclose:
\* `now - sessionTimestamps[sessionId] > SESSION_TIMEOUT`, in onclose with
\* `|| 0` for a key that has no timestamp (the sweep visits own keys only).
SessionAgeExceeded(key) ==
    now - (IF sessionTimestamps[key] = NoTimestamp THEN 0 ELSE sessionTimestamps[key])
        > SESSION_TIMEOUT

\* transport.onclose of a handle whose session id is key.
LocalOnCloseEffect(key) ==
    IF key # NoId /\ SessionAgeExceeded(key)
    THEN DeleteBoth({key})
    ELSE UNCHANGED <<transports, sessionTimestamps>>

\* `await transport.handleRequest(...)` where transport is what the map
\* lookup gave: a handle, or the inherited value, which has no handleRequest
\* (a TypeError that nothing in the handler catches).
LocalHandle(q, isDelete) ==
    IF q.sid \in Ids
    THEN LET h   == transports[q.sid]
             ans == ProtocolAnswer(handles[h], q.init, q.sid)
         IN  /\ last' = Done([q EXCEPT !.outcome = "REUSED", !.hit = h,
                                       !.transport = h, !.handled = TRUE],
                             ByProtocol(ans))
             /\ IF isDelete /\ ans = "handled_ok"
                THEN handles' = [handles EXCEPT ![h].closed = TRUE]
                ELSE UNCHANGED handles
    ELSE /\ last' = Done([q EXCEPT !.outcome = "REUSED", !.threw = TRUE],
                         UnhandledRejection)
         /\ UNCHANGED handles

\* app.post("/mcp") of src/index.ts, which suspends nowhere before
\* handleRequest.
LocalPost(sid, isInit) ==
    LET q == [IdleReq EXCEPT !.op = "local.post", !.sid = sid, !.init = isInit] IN
    /\ IF sid # NoId /\ TransportsGet(sid) # NoHandle
       THEN /\ sessionTimestamps' = [sessionTimestamps EXCEPT ![sid] = now]
            /\ LocalHandle(q, FALSE)
            /\ UNCHANGED transports
       ELSE IF sid = NoId /\ isInit
       THEN /\ Len(handles) < MaxHandles
            /\ \E id \in FreshIds :
                   LET t == Initialized(NewTransport(id, "ifExpired"))
                       h == Len(handles) + 1
                   IN  /\ handles' = Append(handles, t)
                       /\ transports' = [transports EXCEPT ![id] = h]
                       /\ sessionTimestamps' = [sessionTimestamps EXCEPT ![id] = now]
                       /\ last' = Done([q EXCEPT !.outcome = "CREATED", !.built = id,
                                                 !.minted = id, !.transport = h,
                                                 !.onclose = t.onclose, !.handled = TRUE],
                                       ByProtocol("handled_ok"))
       ELSE /\ last' = Done([q EXCEPT !.outcome = "REJECTED"], RejectResponse)
            /\ UNCHANGED <<handles, transports, sessionTimestamps>>
    /\ UNCHANGED <<sessionManager, inMemorySessions, now, isServerlessEnvironment, redis,
                   store, timers, reqs>>

\* handleSessionRequest of src/index.ts, for GET and DELETE.  A DELETE makes
\* the protocol layer close the handle, whose onclose then runs with the
\* timestamp the handler has just written.
LocalSessionRequest(method, sid) ==
    LET q == [IdleReq EXCEPT !.op = method, !.sid = sid] IN
    /\ IF sid = NoId \/ TransportsGet(sid) = NoHandle
       THEN /\ last' = Done([q EXCEPT !.outcome = "REJECTED"], PlainTextReject)
            /\ UNCHANGED <<handles, transports, sessionTimestamps>>
       ELSE /\ sessionTimestamps' = [sessionTimestamps EXCEPT ![sid] = now]
            /\ LocalHandle(q, method = "local.delete")
            /\ UNCHANGED transports
    /\ UNCHANGED <<sessionManager, inMemorySessions, now, isServerlessEnvironment, redis,
                   store, timers, reqs>>

\* The connection of handle h goes away and transport.onclose runs.
LocalCloseTransport(h) ==
    /\ h \in 1..Len(handles)
    /\ ~handles[h].closed
    /\ handles' = [handles EXCEPT ![h].closed = TRUE]
    /\ LocalOnCloseEffect(handles[h].sessionId)
    /\ last' = IdleReq
    /\ UNCHANGED <<sessionManager, inMemorySessions, now, isServerlessEnvironment, redis,
                   store, timers, reqs>>

\* One run of the setInterval callback.
LocalSweep ==
    /\ DeleteBoth({k \in TimestampKeys : SessionAgeExceeded(k)})
    /\ last' = [IdleReq EXCEPT !.op = "local.sweep"]
    /\ UNCHANGED <<sessionManager, inMemorySessions, now, isServerlessEnvironment, redis,
                   store, handles, timers, reqs>>

\* src/index.ts has no SessionManager and reads no environment.
LocalInit == Init /\ ~redis /\ ~isServerlessEnvironment

LocalNext ==
    \/ \E sid \in Keys \cup {NoId}, isInit \in BOOLEAN : LocalPost(sid, isInit)
    \/ \E method \in {"local.get", "local.delete"}, sid \in Keys \cup {NoId} :
           LocalSessionRequest(method, sid)
    \/ \E h \in 1..MaxHandles : LocalCloseTransport(h)
    \/ LocalSweep
    \/ Tick

LocalSpec == LocalInit /\ [][LocalNext]_vars

\* ================================================================ claims
\* The requests the properties speak about: those in flight and the one the
\* step just taken completed.
AllReqs == InFlight \cup {last}
Outcomes == {"REUSED", "RECREATED", "CREATED", "REBOUND", "REJECTED"}
Completed(q) == q.pc = "done"

\* The record stored under id, as parseSessionData reads it.
RecordOf(id) == ParseSessionData(store[id].value)

\* C1: a request whose session id is a key of the local cache on entry is
\* REUSED: it is handed to exactly the handle found there, it constructs no
\* handle and it does not consult the store, whatever the store holds or
\* whether it can be reached.
C1_ReusedOnCacheHit ==
    \A q \in AllReqs :
        q.hit # NoHandle =>
            /\ Completed(q)
            /\ q.outcome = "REUSED"
            /\ q.handled
            /\ q.transport = q.hit
            /\ q.hit \in 1..Len(handles)
            /\ transports[q.sid] = q.hit
            /\ q.built = NoId
            /\ ~q.looked

\* C1 happens: a request is REUSED although Redis holds no record of its id.
C1_Witness ==
    /\ last.outcome = "REUSED"
    /\ last.hit # NoHandle
    /\ redis
    /\ store[last.sid] = NoKey

\* C2: on a cache miss for which sessionExists answered true, the handle that
\* is constructed has a generator returning exactly the client's id; no id is
\* drawn, and if the handle is initialized its session id is the client's id.
C2_RecreatedKeepsClientId ==
    \A q \in AllReqs :
        q.outcome = "RECREATED" =>
            /\ q.sid # NoId
            /\ q.hit = NoHandle
            /\ q.exists
            /\ q.built = q.sid
            /\ q.minted = NoId
            /\ (q.init => /\ q.transport \in 1..Len(handles)
                          /\ handles[q.transport].generator = q.sid
                          /\ handles[q.transport].sessionId = q.sid)

\* C2 happens: an initialize request was RECREATED and its handle, carrying
\* the client's id, is the one registered under that id.
C2_Witness ==
    /\ last.outcome = "RECREATED"
    /\ last.init
    /\ transports[last.sid] = last.transport
    /\ handles[last.transport].sessionId = last.sid

\* C3: when a RECREATED request completes, whatever its body, the handle is
\* registered in the cache under the id and a touch of the record has been
\* applied.
C3_RecreatedRegistersAndTouches ==
    (Completed(last) /\ last.outcome = "RECREATED") =>
        /\ transports[last.sid] # NoHandle
        /\ transports[last.sid] = last.transport
        /\ last.touched

C5_ReboundBestEffort ==
    (/\ Completed(last)
     /\ isServerlessEnvironment
     /\ last.sid # NoId
     /\ last.hit = NoHandle
     /\ last.looked
     /\ ~last.recLive) =>
        /\ last.outcome = "REBOUND"
        /\ last.built = last.sid
        /\ last.resp \notin CallbackFailures

\* C6: under the strict policy a POST whose header value is neither a key of
\* the cache nor a key of the store is REJECTED: status 400, code -32000, id
\* null, and no handle is constructed or given the request.
C6_StrictRejectsUnknownId ==
    \A q \in AllReqs :
        (/\ ~isServerlessEnvironment
         /\ q.op = "post"
         /\ q.sid # NoId
         /\ \/ q.sid \notin Ids
            \/ q.hit = NoHandle /\ q.looked /\ ~q.recLive) =>
            /\ Completed(q)
            /\ q.outcome = "REJECTED"
            /\ q.resp = [by |-> "handler", what |-> "bad_request",
                         status |-> 400, code |-> -32000, id |-> "null"]
            /\ q.built = NoId
            /\ q.transport = NoHandle
            /\ ~q.handled

\* C7: a request with no session id and a body that is not an initialize
\* message is REJECTED under both policies, and no REJECTED request is ever
\* given to handleRequest or gets a handle.
C7_NoIdNonInitializeRejected ==
    \A q \in AllReqs :
        /\ (q.sid = NoId /\ ~q.init /\ q # IdleReq) =>
               /\ q.outcome = "REJECTED"
               /\ q.resp = RejectResponse
        /\ q.outcome = "REJECTED" =>
               /\ ~q.handled
               /\ q.transport = NoHandle
               /\ q.built = NoId
               /\ q.resp.by = "handler"

\* C7 happens: such a request was rejected under the tolerant policy.
C7_Witness ==
    /\ last.outcome = "REJECTED"
    /\ last.sid = NoId
    /\ ~last.init
    /\ isServerlessEnvironment

\* C8: a request that carries a session id is never CREATED and draws no id;
\* once sessionExists has answered true it is RECREATED; REBOUND is taken only
\* on a cache miss for which sessionExists answered false, under the tolerant
\* policy.
C8_IdNeverCreated ==
    \A q \in AllReqs :
        /\ q.sid # NoId => (q.outcome # "CREATED" /\ q.minted = NoId)
        /\ q.exists => q.outcome = "RECREATED"
        /\ (q.sid # NoId /\ q.hit # NoHandle) => q.outcome = "REUSED"
        /\ q.outcome = "REBOUND" =>
               /\ isServerlessEnvironment
               /\ q.sid # NoId
               /\ q.hit = NoHandle
               /\ ~q.exists

\* C8 happens: under the tolerant policy an initialize request carrying an id
\* whose record Redis confirmed was RECREATED.
C8_Witness ==
    /\ isServerlessEnvironment
    /\ last.sid # NoId
    /\ last.init
    /\ last.exists
    /\ last.outcome = "RECREATED"

\* The inputs of the chain as the handler reads them: the header id, the body
\* shape, whether the cache held the id, and what sessionExists answered (the
\* policy is fixed for the life of the process).
SameReadings(a, b) ==
    /\ a.sid = b.sid
    /\ a.init = b.init
    /\ (a.hit # NoHandle) = (b.hit # NoHandle)
    /\ a.exists = b.exists

\* The inputs as C9 lists them: the store's contents in place of the answer
\* of sessionExists.
SameContents(a, b) ==
    /\ a.sid = b.sid
    /\ a.init = b.init
    /\ (a.hit # NoHandle) = (b.hit # NoHandle)
    /\ a.recLive = b.recLive

C10_LookupErrorIsNotFound ==
    \A q \in AllReqs :
        q.lookupErr =>
            /\ ~q.exists
            /\ q.outcome = IF isServerlessEnvironment THEN "REBOUND" ELSE "REJECTED"
            /\ ~isServerlessEnvironment => (Completed(q) /\ q.resp = RejectResponse)
            /\ isServerlessEnvironment => (q.handled /\ q.built = q.sid)

\* C10 happens: the record was in Redis, the lookup threw, and the request
\* was rejected.
C10_Witness ==
    /\ last.lookupErr
    /\ last.recLive
    /\ last.outcome = "REJECTED"

\* C11: every request that is routed to a handle of session s and handled
\* (REUSED as well as RECREATED) refreshes the record of s in Redis: when a
\* REUSED request completes, the record's lastAccessed is not before the
\* current time and its key has the full time-to-live ahead of it again; when a RECREATED one completes, the
\* touch of updateSession has been applied.
C11_RoutedRequestRefreshes ==
    (/\ Completed(last)
     /\ last.op = "post"
     /\ last.outcome \in {"REUSED", "RECREATED"}
     /\ last.resp = ByProtocol("handled_ok")
     /\ ~last.threw
     /\ redis
     /\ RedisExists(last.sid)) =>
        IF last.outcome = "REUSED"
        THEN /\ RecordOf(last.sid).lastAccessed >= now
             /\ store[last.sid].expiresAt >= now + SESSION_TIMEOUT
        ELSE last.touched

\* What sessionExists(id) and getSession(id) resolve to when called in the
\* current state and no store call throws.
SessionExistsAnswer(id) ==
    IF redis THEN SessionExistsResult(id, FALSE) ELSE FALSE
GetSessionAnswer(id) ==
    LET session == IF sessionManager = InMemory THEN inMemorySessions[id]
                   ELSE IF redis THEN ParseSessionData(store[id].value)
                   ELSE NoRecord
    IN  IF session = NoRecord THEN NoRecord ELSE [session EXCEPT !.lastAccessed = now]

\* C12: in every storage mode, fallback mode included, once createSession(s)
\* has returned, sessionExists(s) answers true and getSession(s) answers a
\* record whose sessionId is s.
C12_CreatedThenPresent ==
    (Completed(last) /\ last.op = "createSession" /\ last.resp = Returned) =>
        /\ HasOp("sessionExists") => SessionExistsAnswer(last.sid)
        /\ GetSessionAnswer(last.sid).sessionId = last.sid

\* C13: createSession(s) with a Redis client writes a record of s whose
\* createdAt equals its lastAccessed, under a key that expires the full
\* timeout (1800 seconds) after the write.
C13_CreateWritesFreshRecord ==
    (/\ Completed(last)
     /\ last.op = "createSession"
     /\ last.resp = Returned
     /\ sessionManager # InMemory
     /\ redis) =>
        /\ RecordOf(last.sid).sessionId = last.sid
        /\ RecordOf(last.sid).createdAt = RecordOf(last.sid).lastAccessed
        /\ store[last.sid].expiresAt = now + 1800 * 1000

\* What getSession has to do, step by step, for the store errors in errs:
\* the read of a present record yields the record with lastAccessed set to
\* the current time and sessionId, createdAt as stored; the write-back stores
\* exactly that session with the full timeout ahead and getSession returns
\* it; the read of a missing record returns null and writes nothing.
GetSessionContract(errs) ==
    /\ \A r \in InFlight, err \in errs :
           (r.op = "getSession" /\ GetSessionGet(r, err)) =>
               IF RedisExists(r.sid)
               THEN /\ BagIn([r EXCEPT !.pc = "getSession.setex",
                                       !.session = [sessionId |-> r.sid,
                                                    createdAt |-> RecordOf(r.sid).createdAt,
                                                    lastAccessed |-> now]], reqs')
                    /\ ~Completed(last')
               ELSE /\ Completed(last')
                    /\ last'.ret = NoRecord
                    /\ store' = store
    /\ \A r \in InFlight, err \in errs :
           (r.op = "getSession" /\ GetSessionSetex(r, err)) =>
               /\ Completed(last')
               /\ last'.resp = Returned
               /\ last'.ret = r.session
               /\ store'[r.sid] = [value |-> <<r.sid, r.session.createdAt, r.session.lastAccessed>>,
                                   expiresAt |-> now + SESSION_TIMEOUT]
    /\ \A id \in Ids :
           (sessionManager = InMemory /\ Call("getSession", id)) =>
               /\ Completed(last')
               /\ last'.resp = Returned
               /\ IF inMemorySessions[id] = NoRecord
                  THEN last'.ret = NoRecord /\ inMemorySessions' = inMemorySessions
                  ELSE /\ last'.ret = [sessionId |-> id,
                                       createdAt |-> inMemorySessions[id].createdAt,
                                       lastAccessed |-> now]
                       /\ inMemorySessions'[id] = last'.ret

\* C14 (as the SessionManager has it): getSession(s) on a present record
\* returns it with lastAccessed set to the current time, writes that record
\* back with the full timeout and leaves sessionId and createdAt as they
\* were; on a missing record it returns null and writes nothing; and when a
\* redis call of it throws it returns null and writes nothing.
C14_GetSessionRefreshes ==
    [][ /\ GetSessionContract({FALSE})
        /\ \A r \in InFlight :
               (r.op = "getSession" /\ (GetSessionGet(r, TRUE) \/ GetSessionSetex(r, TRUE))) =>
                   /\ Completed(last')
                   /\ last'.resp = Returned
                   /\ last'.ret = NoRecord
                   /\ store' = store
      ]_vars

\* C14 happens: a getSession on a record written earlier has returned it,
\* refreshed, after the clock moved on.
C14_Witness ==
    /\ Completed(last)
    /\ last.op = "getSession"
    /\ last.ret # NoRecord
    /\ last.ret.createdAt < last.ret.lastAccessed - MaxSkew
    /\ RecordOf(last.sid) = last.ret

\* C14 as stated: the same, whatever the store does.
C14_GetSessionAlwaysReturnsPresent ==
    [][GetSessionContract(BOOLEAN)]_vars

\* A step of a getSession or updateSession call.
RefreshStep ==
    \/ \E r \in InFlight, err \in BOOLEAN :
           /\ r.op \in {"getSession", "updateSession"}
           /\ GetSessionGet(r, err) \/ GetSessionSetex(r, err) \/ UpdateSessionSetex(r, err)
    \/ \E r \in InFlight : UpdateSessionSet(r)
    \/ \E id \in Ids : Call("getSession", id) \/ Call("updateSession", id)

\* C15: while the record of a session exists (the record before and after
\* the step is the one created at the same time), no step of a getSession or
\* updateSession call, however the calls interleave, lowers the lastAccessed
\* stored for the session.
C15_LastAccessedNeverDecreases ==
    [][ RefreshStep =>
            \A id \in Ids :
                /\ (/\ store[id] # NoKey /\ store'[id] # NoKey
                    /\ ParseSessionData(store'[id].value).createdAt
                           = ParseSessionData(store[id].value).createdAt) =>
                       ParseSessionData(store'[id].value).lastAccessed
                           >= ParseSessionData(store[id].value).lastAccessed
                /\ (/\ inMemorySessions[id] # NoRecord /\ inMemorySessions'[id] # NoRecord
                    /\ inMemorySessions'[id].createdAt = inMemorySessions[id].createdAt) =>
                       inMemorySessions'[id].lastAccessed >= inMemorySessions[id].lastAccessed
      ]_vars

\* The record the store holds for id, in whichever version is built.
StoredSession(id) ==
    IF sessionManager = InMemory THEN inMemorySessions[id]
    ELSE IF store[id] # NoKey THEN RecordOf(id) ELSE NoRecord

\* C16: in every version of the store, a record whose lastAccessed lies more
\* than the timeout in the past is absent for getSession and sessionExists
\* (so the read does not refresh it either), whether or not a sweep has run.
C16_StaleRecordIsAbsent ==
    \A id \in Ids :
        (/\ StoredSession(id) # NoRecord
         /\ now - StoredSession(id).lastAccessed > SESSION_TIMEOUT) =>
            /\ GetSessionAnswer(id) = NoRecord
            /\ ~SessionExistsAnswer(id)

\* C17: deleteSession never throws to its caller, whether the record exists
\* or not and whether or not redis.del throws; a delete that took effect
\* leaves the record absent and everything else as it was, a delete of an
\* absent record changes nothing, so a second delete leaves the store as the
\* first left it.
C17_DeleteIsIdempotent ==
    [][ /\ \A r \in InFlight, err \in BOOLEAN :
               DeleteSessionDel(r, err) =>
                   /\ Completed(last')
                   /\ last'.resp = Returned
                   /\ store' = IF err THEN store
                               ELSE [i \in Ids |-> IF i = r.sid THEN NoKey ELSE store[i]]
                   /\ store[r.sid] = NoKey => store' = store
                   /\ ~err => [i \in Ids |-> IF i = r.sid THEN NoKey ELSE store'[i]] = store'
        /\ \A id \in Ids :
               (sessionManager = InMemory /\ Call("deleteSession", id)) =>
                   /\ Completed(last')
                   /\ last'.resp = Returned
                   /\ inMemorySessions' =
                          [i \in Ids |-> IF i = id THEN NoRecord ELSE inMemorySessions[i]]
                   /\ inMemorySessions[id] = NoRecord => inMemorySessions' = inMemorySessions
        /\ \A id \in Ids :
               (sessionManager # InMemory /\ ~redis /\ Call("deleteSession", id)) =>
                   /\ Completed(last')
                   /\ last'.resp = Returned
                   /\ store' = store
      ]_vars

\* C17 happens: a deleteSession has returned, the record is gone, and another
\* deleteSession of the same id is about to reach Redis.
C17_Witness ==
    /\ Completed(last)
    /\ last.op = "deleteSession"
    /\ ~last.threw
    /\ redis
    /\ store[last.sid] = NoKey
    /\ \E q \in InFlight : q.op = "deleteSession" /\ q.sid = last.sid /\ q.pc = "deleteSession.del"

\* C18: a record's createdAt is fixed by its first write: across every step
\* of the handler that leaves the record in Redis (it is neither deleted nor
\* expired by the step), createdAt is what it was before the step.
C18_CreatedAtNeverChanges ==
    [][ \A id \in Ids :
            (store[id] # NoKey /\ store'[id] # NoKey) =>
                ParseSessionData(store'[id].value).createdAt = RecordOf(id).createdAt
      ]_vars

\* C19: in every reachable state every stored record, in Redis or in the
\* process-local map, has lastAccessed >= createdAt.
C19_LastAccessedNotBeforeCreatedAt ==
    \A id \in Ids :
        /\ store[id] # NoKey => RecordOf(id).lastAccessed >= RecordOf(id).createdAt
        /\ inMemorySessions[id] # NoRecord =>
               inMemorySessions[id].lastAccessed >= inMemorySessions[id].createdAt

\* C19 happens: a refresh has just written a record back whose lastAccessed
\* is later than its createdAt.
C19_Witness ==
    /\ Completed(last)
    /\ last.op \in {"getSession", "updateSession"}
    /\ ~last.threw
    /\ StoredSession(last.sid) # NoRecord
    /\ StoredSession(last.sid).lastAccessed > StoredSession(last.sid).createdAt + MaxSkew

\* C20: in the SessionManager with the Redis client, once a deleteSession of
\* an id has returned and the key is gone, a step that is not a createSession
\* write leaves the key absent: a getSession or updateSession that read the
\* record before the delete does not bring it back with its write.
C20_DeletedStaysAbsent ==
    [][ LET s == last.sid IN
        (/\ sessionManager = RedisWithFallback
         /\ Completed(last)
         /\ last.op = "deleteSession"
         /\ store[s] = NoKey
         /\ ~(\E r \in InFlight, err \in BOOLEAN : CreateSessionSetex(r, err))) =>
            store'[s] = NoKey
      ]_vars

\* C21: without a Redis client no request is RECREATED, and a POST whose
\* header value is not a key of the local cache has had sessionExists answer
\* false and ends REBOUND when the instance is serverless, REJECTED when it
\* is not.
C21_FallbackNeverRecreates ==
    \A q \in AllReqs :
        ~redis =>
            /\ q.outcome # "RECREATED"
            /\ (q.op = "post" /\ q.sid # NoId /\ (q.sid \notin Ids \/ q.hit = NoHandle)) =>
                   /\ Completed(q)
                   /\ q.looked
                   /\ ~q.exists
                   /\ q.outcome = IF isServerlessEnvironment THEN "REBOUND" ELSE "REJECTED"

C23_RecreatedHandleRemovesItself ==
    /\ \A q \in AllReqs :
           (q.outcome = "RECREATED" /\ q.built # NoId) => q.onclose = "delete"
    /\ \A h \in 1..Len(handles) :
           (handles[h].closed /\ handles[h].onclose = "delete") =>
               transports[handles[h].sessionId] # h

\* C24: no entry of the local cache is removed at the moment its handle
\* closes: while the process lives, an entry disappears only in the step of a
\* timer that the close scheduled and that has come due, whichever branch
\* constructed the handle.
C24_CloseDefersCacheRemoval ==
    [][ (\E id \in Ids : transports[id] # NoHandle /\ transports'[id] = NoHandle) =>
            \/ ColdStart
            \/ \E t \in timers, err \in BOOLEAN : TimerFire(t, err) /\ now >= t.due
      ]_vars

\* C25: a close, whether the handle closes by itself or a DELETE /mcp makes it
\* close, leaves every durable record as it is; a timer a step schedules is
\* due a full SESSION_TIMEOUT after that step; and a record disappears from
\* the store only by expiring or in the step of such a timer, come due, of a
\* closed handle.
C25_CloseKeepsRecord ==
    [][ /\ \A h \in 1..Len(handles) : CloseTransport(h) => store' = store
        /\ (last'.op = "delete" /\ Completed(last')) => store' = store
        /\ \A t \in timers' \ timers :
               /\ t.due = now + SESSION_TIMEOUT
               /\ handles'[t.h].closed
        /\ (\E id \in Ids : store[id] # NoKey /\ store'[id] = NoKey) =>
               \/ Tick
               \/ \E t \in timers, err \in BOOLEAN :
                      /\ TimerFire(t, err)
                      /\ now >= t.due
                      /\ handles[t.h].closed
      ]_vars

\* C25 happens: a handle has closed, its timer has come due a timeout later,
\* and the record of its session is still in the store.
C25_Witness ==
    \E t \in timers :
        /\ handles[t.h].closed
        /\ now >= t.due
        /\ store[handles[t.h].sessionId] # NoKey

\* C26: at any time at most one handle of the instance that has not closed
\* and is in use (registered in the local cache, or serving a request in
\* flight) carries a given session id, also while requests for the same
\* uncached id overlap.
C26_OneLiveHandlePerSession ==
    \A id \in Ids :
        Cardinality({h \in 1..Len(handles) :
                        /\ handles[h].sessionId = id
                        /\ ~handles[h].closed
                        /\ \/ transports[id] = h
                           \/ \E q \in InFlight : q.transport = h}) <= 1

\* C27: every failure the handlers of /mcp answer themselves, for POST, GET
\* and DELETE, is the JSON error object: code -32000 with status 400 or code
\* -32603 with status 500, and id null.
C27_FailuresAreStructured ==
    \A q \in AllReqs :
        (Completed(q) /\ q.op \in {"post", "get", "delete"} /\ q.resp.by = "handler") =>
            /\ q.resp.id = "null"
            /\ \/ q.resp.status = 400 /\ q.resp.code = -32000
               \/ q.resp.status = 500 /\ q.resp.code = -32603

\* C28: a sweep of the process-local map removes exactly the records whose
\* lastAccessed lies more than SESSION_TIMEOUT before now; every other key
\* holds after the sweep the record it held before, lastAccessed included.
C28_SweepRemovesExactlyStale ==
    [][ CleanupExpiredSessions =>
            \A id \in Ids :
                LET before == inMemorySessions[id] IN
                inMemorySessions'[id] =
                    IF before # NoRecord /\ now - before.lastAccessed > SESSION_TIMEOUT
                    THEN NoRecord ELSE before
      ]_vars

\* C28 happens: a sweep has just removed a record and left another one, which
\* was last accessed a tick ago, in the map.
C28_Witness ==
    /\ last.op = "cleanupExpiredSessions"
    /\ Completed(last)
    /\ last.swept # {}
    /\ \E id \in Ids :
           /\ inMemorySessions[id] # NoRecord
           /\ inMemorySessions[id].lastAccessed < now

\* C29: in the first variant of api/index.ts a request whose session id has a
\* handle in the transports map on entry is handed to that handle and
\* answered by it, whatever getSession resolved to.
C29_ApiReusesCachedHandle ==
    \A q \in AllReqs :
        (q.op = "api.post" /\ Completed(q) /\ q.hit # NoHandle) =>
            /\ q.handled
            /\ q.transport = q.hit
            /\ q.resp.by = "protocol"

\* C30: in the first variant of api/index.ts the removal of a closed handle's
\* map entry and record is scheduled: once a handle that an initialize request
\* created and registered has closed, a timer for it is pending, or its entry
\* is out of the transports map and its record out of the store.
C30_ApiCloseSchedulesRemoval ==
    \A h \in 1..Len(handles) :
        (handles[h].closed /\ handles[h].sessionId # NoId) =>
            \/ \E t \in timers : t.h = h /\ t.due <= now + SESSION_TIMEOUT
            \/ /\ transports[handles[h].sessionId] # h
               /\ store[handles[h].sessionId] = NoKey

\* C31: the steps of a POST request that ends REJECTED change neither the
\* local cache nor the store: the step that suspends a request at its
\* sessionExists lookup and the step that completes a request as REJECTED
\* leave the transports map, the handles, the timers and every Redis key
\* (value and expiration) as they were, and the request is handed to no handle.
C31_RejectedChangesNothing ==
    [][ /\ (last'.op = "post" /\ Completed(last') /\ last'.outcome = "REJECTED") =>
               /\ UNCHANGED <<transports, handles, timers, store>>
               /\ ~last'.handled
               /\ last'.built = NoId
        /\ (\E q \in InFlight' : /\ q.pc = "sessionExists"
                                 /\ CopiesIn(q, reqs') > CopiesIn(q, reqs)) =>
               UNCHANGED <<transports, handles, timers, store>>
      ]_vars

\* C31 happens: a request with a session id has been REJECTED after its
\* lookup while the cache holds a handle and the store a record.
C31_Witness ==
    /\ last.op = "post"
    /\ Completed(last)
    /\ last.outcome = "REJECTED"
    /\ last.sid # NoId
    /\ last.looked
    /\ \E id \in Ids : transports[id] # NoHandle
    /\ \E id \in Ids : store[id] # NoKey

\* C32: whenever the close timer of a handle runs deleteSession and the record
\* of the handle's session is in the store, the record's lastAccessed lies at
\* least SESSION_TIMEOUT before now, also when the session was resumed from
\* its record between the close and the timer.
C32_DeleteOnlyIdleRecord ==
    [][ \A t \in timers, err \in BOOLEAN :
            LET id == handles[t.h].sessionId IN
            (TimerFire(t, err) /\ redis /\ store[id] # NoKey) =>
                now - RecordOf(id).lastAccessed >= SESSION_TIMEOUT
      ]_vars

\* C33: the close callback of handle h and the close timer of handle h leave
\* the transports entry of h's session id alone when that entry is another
\* handle than h.
C33_CloseEvictsOnlyItself ==
    [][ /\ \A h \in 1..MaxHandles :
               LET id == handles[h].sessionId IN
               (CloseTransport(h) /\ transports[id] # h) =>
                   transports'[id] = transports[id]
        /\ \A t \in timers, err \in BOOLEAN :
               LET id == handles[t.h].sessionId IN
               (TimerFire(t, err) /\ transports[id] # t.h) =>
                   transports'[id] = transports[id]
      ]_vars

\* C34: a POST that takes the reuse branch is never handed to a handle that
\* had signalled close before the request arrived.
C34_NoRequestToClosedHandle ==
    [][ (last'.op = "post" /\ Completed(last') /\ last'.outcome = "REUSED") =>
            /\ last'.transport \in DOMAIN handles
            /\ ~handles[last'.transport].closed
      ]_vars

\* C35: every key of the transports map holds a handle whose own session id
\* is that key.
C35_KeyIsSessionId ==
    \A k \in Ids :
        transports[k] # NoHandle =>
            /\ transports[k] \in DOMAIN handles
            /\ handles[transports[k]].sessionId = k

\* Both ids are cached, one by the initialize branch and one by a recreate
\* that has just been answered.
C35_Witness ==
    /\ \A k \in Ids : transports[k] # NoHandle
    /\ \E k \in Ids : handles[transports[k]].onclose = "defer"
    /\ Completed(last) /\ last.outcome = "RECREATED"
    /\ last.sid # NoId /\ transports[last.sid] = last.transport

\* C36: a step that changes the key of a session in the store, other than
\* Redis dropping expired keys, is a step of a SessionManager call for that
\* very session id: the call of a request that moves in the step, or the
\* deleteSession of a close timer that fires in it.  The key of every other
\* session keeps its presence, record and expiration instant.
C36_OtherSessionsUntouched ==
    [][ now' = now =>
            \A i \in Ids :
                store'[i] # store[i] =>
                    \/ \E r \in InFlight : /\ CopiesIn(r, reqs') < CopiesIn(r, reqs)
                                           /\ SessionIdOf(r) = i
                    \/ \E t \in timers \ timers' : handles[t.h].sessionId = i
      ]_vars

\* A request has just written the record of one session while the record of
\* the other session is in the store.
C36_Witness ==
    /\ redis /\ Completed(last) /\ last.op = "post"
    /\ last.outcome \in {"CREATED", "RECREATED", "REBOUND"}
    /\ last.built # NoId
    /\ store[last.built] # NoKey
    /\ store[last.built].expiresAt = now + SESSION_TIMEOUT
    /\ \E other \in Ids \ {last.built} :
           store[other] # NoKey /\ store[other].expiresAt < now + SESSION_TIMEOUT

\* C37: in src/index.ts the transports object and the sessionTimestamps
\* object have the same keys in every reachable state.
C37_SameKeys == TransportKeys = TimestampKeys

\* C38: in src/index.ts a step that removes a session from the transports
\* object, by the sweep or by a close callback, finds the timestamp of that
\* session more than SESSION_TIMEOUT before now: a session a request touched
\* less than SESSION_TIMEOUT ago stays.
C38_RecentSessionStays ==
    [][ \A k \in Ids :
            (transports[k] # NoHandle /\ transports'[k] = NoHandle) =>
                /\ sessionTimestamps[k] # NoTimestamp
                /\ now - sessionTimestamps[k] > SESSION_TIMEOUT
      ]_vars

\* The sweep has run over two sessions: the one a request refreshed 20
\* minutes ago is still there, the one untouched for 40 minutes is gone.
C38_Witness ==
    /\ last.op = "local.sweep"
    /\ \E k \in Ids : /\ transports[k] # NoHandle
                      /\ sessionTimestamps[k] # NoTimestamp
                      /\ now - sessionTimestamps[k] = TickMs
    /\ \E k \in Ids : /\ transports[k] = NoHandle
                      /\ \E h \in 1..Len(handles) : handles[h].sessionId = k

====
